---- MODULE Spec2Model ----
(***************************************************************************)
(* Model of the nelko-p21 label printing scripts: p21.py (rasterizer,     *)
(* command framer, serial transport, CLI) and simple_print.py.            *)
(*                                                                         *)
(* Byte strings are sequences of integers 0..255.  An image is a record   *)
(* [width, height, px] where px maps <<row, column>> (0-based) to the     *)
(* pixel value.  Images are never stored in the state: only the packed    *)
(* bytes are.                                                              *)
(***************************************************************************)
EXTENDS Integers, Sequences, FiniteSets, TLC

VARIABLES pc, args, bitdata, command, conn, pending, response,
          calls, written, printed, logged, exitcode

vars == <<pc, args, bitdata, command, conn, pending, response,
          calls, written, printed, logged, exitcode>>

(***************************************************************************)
(* Program constants (p21.py lines 11-21).                                 *)
(***************************************************************************)
LABEL_WIDTH_PX == 284
LABEL_HEIGHT_PX == 96
ROTATED_WIDTH_PX == LABEL_HEIGHT_PX
ROTATED_HEIGHT_PX == LABEL_WIDTH_PX
BYTES_PER_ROW == ROTATED_WIDTH_PX \div 8
EXPECTED_BYTES == ROTATED_HEIGHT_PX * BYTES_PER_ROW
DEFAULT_FONT_SIZE == 30
DEFAULT_DENSITY == 7
DEFAULT_COPIES == 1
DEFAULT_THRESHOLD == 180
SIMPLE_EXPECTED_BYTES == 3408
SIMPLE_WIDTH_PX == 96
SIMPLE_HEIGHT_PX == 284

(***************************************************************************)
(* Bounds of the model.                                                    *)
(***************************************************************************)
MaxArg == 11
MaxLen == 3
MaxChars == 2

(***************************************************************************)
(* Generic helpers.                                                        *)
(***************************************************************************)
Abs(n) == IF n < 0 THEN 0 - n ELSE n

Fill(n, b) == [i \in 1..n |-> b]

\* bytes.ljust(width, fillbyte)
ljust(b, width, fillbyte) ==
    IF Len(b) >= width THEN b ELSE b \o Fill(width - Len(b), fillbyte)

\* str(n) for a Python int, as a sequence of code points
RECURSIVE Digits(_)
Digits(n) == IF n < 10 THEN <<48 + n>>
             ELSE Append(Digits(n \div 10), 48 + (n % 10))

IntToStr(n) == IF n < 0 THEN <<45>> \o Digits(0 - n) ELSE Digits(n)

\* str.encode(): UTF-8 of a sequence of code points below 0x800
RECURSIVE encode(_)
encode(s) ==
    IF s = <<>> THEN <<>>
    ELSE (IF Head(s) < 128 THEN <<Head(s)>>
          ELSE <<192 + (Head(s) \div 64), 128 + (Head(s) % 64)>>)
         \o encode(Tail(s))

(***************************************************************************)
(* PIL operations used by the scripts.                                     *)
(***************************************************************************)
\* The scenes the input files can hold: RGB value of the pixel at (x, y).
Scenes == {"white", "black", "ramp", "stripes"}

SceneRGB(scene, x, y) ==
    CASE scene = "white"   -> <<255, 255, 255>>
      [] scene = "black"   -> <<0, 0, 0>>
      [] scene = "ramp"    -> <<(7 * x + 3 * y) % 256, (5 * x + y) % 256, (x + 11 * y) % 256>>
      [] scene = "stripes" -> IF x % 2 = 0 THEN <<10, 20, 30>> ELSE <<250, 240, 230>>

\* Image.open(path) of a decodable file of the given size
Image_open(size, scene) ==
    [width  |-> size[1],
     height |-> size[2],
     px     |-> [p \in (0..(size[2] - 1)) \X (0..(size[1] - 1)) |->
                    SceneRGB(scene, p[2], p[1])]]

\* ImageOps.grayscale: ITU-R 601-2 luma, in PIL's fixed point arithmetic
grayscale(img) ==
    [width  |-> img.width,
     height |-> img.height,
     px     |-> [p \in (0..(img.height - 1)) \X (0..(img.width - 1)) |->
                    (img.px[p][1] * 19595 + img.px[p][2] * 38470
                       + img.px[p][3] * 7471 + 32768) \div 65536]]

\* img.rotate(90, expand=True): counter-clockwise quarter turn
rotate90(img) ==
    [width  |-> img.height,
     height |-> img.width,
     px     |-> [p \in (0..(img.width - 1)) \X (0..(img.height - 1)) |->
                    img.px[<<p[2], img.width - 1 - p[1]>>]]]

\* img.rotate(-90, expand=True): clockwise quarter turn
rotate270(img) ==
    [width  |-> img.height,
     height |-> img.width,
     px     |-> [p \in (0..(img.width - 1)) \X (0..(img.height - 1)) |->
                    img.px[<<img.height - 1 - p[2], p[1]>>]]]

\* round_aspect of Image.thumbnail, first branch: the one of floor and ceil
\* of y*w/h whose aspect ratio is closest to w/h, at least 1
RoundAspectX(w, h, y) ==
    LET f == (y * w) \div h
        c == IF (y * w) % h = 0 THEN f ELSE f + 1
        n == IF Abs(w * y - f * h) <= Abs(w * y - c * h) THEN f ELSE c
    IN  IF n < 1 THEN 1 ELSE n

\* round_aspect of Image.thumbnail, second branch, for x*h/w
RoundAspectY(w, h, x) ==
    LET f == (x * h) \div w
        c == IF (x * h) % w = 0 THEN f ELSE f + 1
        n == IF f = 0 THEN f
             ELSE IF Abs(w * f - x * h) * c <= Abs(w * c - x * h) * f THEN f ELSE c
    IN  IF n < 1 THEN 1 ELSE n

\* size computed by Image.thumbnail((x, y)) for an image of size (w, h)
ThumbnailSize(w, h, x, y) ==
    IF x >= w /\ y >= h THEN <<w, h>>
    ELSE IF x * h >= w * y THEN <<RoundAspectX(w, h, y), y>>
    ELSE <<x, RoundAspectY(w, h, x)>>

\* img.resize(size): each output pixel takes the input pixel under its centre
resize(img, size) ==
    [width  |-> size[1],
     height |-> size[2],
     px     |-> [p \in (0..(size[2] - 1)) \X (0..(size[1] - 1)) |->
                    img.px[<<((2 * p[1] + 1) * img.height) \div (2 * size[2]),
                             ((2 * p[2] + 1) * img.width) \div (2 * size[1])>>]]]

\* img.thumbnail(size): shrink in place, never enlarge
thumbnail(img, x, y) ==
    LET final == ThumbnailSize(img.width, img.height, x, y)
    IN  IF final = <<img.width, img.height>> THEN img ELSE resize(img, final)

\* img.point(lambda p: 0 if p < threshold else 255, mode="1")
point(img, threshold) ==
    [width  |-> img.width,
     height |-> img.height,
     px     |-> [p \in (0..(img.height - 1)) \X (0..(img.width - 1)) |->
                    IF img.px[p] < threshold THEN 0 ELSE 255]]

\* img.convert('1', dither=...): a bilevel image
convert1(img) ==
    [width  |-> img.width,
     height |-> img.height,
     px     |-> [p \in (0..(img.height - 1)) \X (0..(img.width - 1)) |->
                    IF img.px[p] < 128 THEN 0 ELSE 255]]

\* one bit of the packed row: set for a non-zero pixel, clear for a zero
\* pixel and for the unused bits after the last pixel of the row
PackBit(img, r, x, m) ==
    IF x < img.width /\ img.px[<<r, x>>] # 0 THEN m ELSE 0

\* byte bc of packed row r
PackByte(img, r, bc) ==
      PackBit(img, r, 8 * bc, 128)    + PackBit(img, r, 8 * bc + 1, 64)
    + PackBit(img, r, 8 * bc + 2, 32) + PackBit(img, r, 8 * bc + 3, 16)
    + PackBit(img, r, 8 * bc + 4, 8)  + PackBit(img, r, 8 * bc + 5, 4)
    + PackBit(img, r, 8 * bc + 6, 2)  + PackBit(img, r, 8 * bc + 7, 1)

\* bytes per packed row of a mode "1" image of width w
Stride(w) == (w + 7) \div 8

\* img.tobytes() of a mode "1" image: rows packed MSB first, one after another
tobytes(img) ==
    [i \in 1..(Stride(img.width) * img.height) |->
        PackByte(img, (i - 1) \div Stride(img.width), (i - 1) % Stride(img.width))]

(***************************************************************************)
(* Rasterizer of p21.py.                                                   *)
(***************************************************************************)
\* load_image up to the thresholding: the scaled bilevel image
normalize_image(size, scene, threshold) ==
    LET gray    == grayscale(Image_open(size, scene))
        upright == IF gray.width > gray.height THEN rotate90(gray) ELSE gray
        scaled  == thumbnail(upright, ROTATED_WIDTH_PX, ROTATED_HEIGHT_PX)
    IN  point(scaled, threshold)

\* the clamp without its padding branch
clamp_bitdata_nopad(b) ==
    IF Len(b) > EXPECTED_BYTES THEN SubSeq(b, 1, EXPECTED_BYTES) ELSE b

\* the length clamp that ends load_image and render_text_label
clamp_bitdata(b) ==
    IF Len(b) < EXPECTED_BYTES THEN ljust(b, EXPECTED_BYTES, 255)
    ELSE IF Len(b) > EXPECTED_BYTES THEN SubSeq(b, 1, EXPECTED_BYTES)
    ELSE b

load_image(size, scene, threshold) ==
    clamp_bitdata(tobytes(normalize_image(size, scene, threshold)))

\* draw.textbbox((0, 0), text, font): <<left, top, right, bottom>> of a text
\* of nchars glyphs; each glyph advances 3/5 of the font size
textbbox(nchars, font_size) ==
    IF nchars = 0 THEN <<0, 0, 0, 0>>
    ELSE <<1, font_size \div 4, nchars * ((3 * font_size) \div 5), font_size>>

\* the canvas of render_text_label after draw.text: white, black glyph boxes
text_canvas(nchars, width, height, font_size) ==
    LET bbox   == textbbox(nchars, font_size)
        text_w == bbox[3] - bbox[1]
        text_h == bbox[4] - bbox[2]
        x      == ((width - text_w) \div 2) - bbox[1]
        y      == ((height - text_h) \div 2) - bbox[2]
        adv    == (3 * font_size) \div 5
    IN  [width  |-> width,
         height |-> height,
         px     |-> [p \in (0..(height - 1)) \X (0..(width - 1)) |->
                        IF /\ p[2] >= x + bbox[1] /\ p[2] < x + bbox[3]
                           /\ p[1] >= y + bbox[2] /\ p[1] < y + bbox[4]
                           /\ (p[2] - x) % adv # 0
                        THEN 0 ELSE 255]]

\* render_text_label after the rotation and the forced resize
rotated_label(nchars, width, height, font_size) ==
    LET rotated == rotate270(text_canvas(nchars, width, height, font_size))
    IN  IF <<rotated.width, rotated.height>> # <<ROTATED_WIDTH_PX, ROTATED_HEIGHT_PX>>
        THEN resize(rotated, <<ROTATED_WIDTH_PX, ROTATED_HEIGHT_PX>>)
        ELSE rotated

render_text_label(nchars, width, height, font_size) ==
    clamp_bitdata(tobytes(rotated_label(nchars, width, height, font_size)))

(***************************************************************************)
(* Command framer of p21.py.                                               *)
(***************************************************************************)
SIZE_LINE == <<83, 73, 90, 69, 32, 49, 52, 46, 48, 32, 109, 109, 44, 52, 48, 46, 48, 32, 109, 109, 13, 10>>
GAP_LINE == <<71, 65, 80, 32, 53, 46, 48, 32, 109, 109, 44, 48, 32, 109, 109, 13, 10>>
DIRECTION_LINE == <<68, 73, 82, 69, 67, 84, 73, 79, 78, 32, 49, 44, 49, 13, 10>>
DENSITY_KW == <<68, 69, 78, 83, 73, 84, 89, 32>>
CRLF == <<13, 10>>
CLS_LINE == <<67, 76, 83, 13, 10>>
BITMAP_KW == <<66, 73, 84, 77, 65, 80, 32, 48, 44, 48, 44>>
COMMA == <<44>>
MODE_0 == <<48, 44>>
MODE_1 == <<49, 44>>
PRINT_KW == <<80, 82, 73, 78, 84, 32>>

\* the header with the CLS line ahead of the DENSITY line
header_cls_first(density) ==
    encode(SIZE_LINE \o GAP_LINE \o DIRECTION_LINE
           \o CLS_LINE
           \o DENSITY_KW \o IntToStr(density) \o CRLF
           \o BITMAP_KW \o IntToStr(BYTES_PER_ROW) \o COMMA
           \o IntToStr(ROTATED_HEIGHT_PX) \o COMMA \o MODE_0)

header(density) ==
    encode(SIZE_LINE \o GAP_LINE \o DIRECTION_LINE
           \o DENSITY_KW \o IntToStr(density) \o CRLF
           \o CLS_LINE
           \o BITMAP_KW \o IntToStr(BYTES_PER_ROW) \o COMMA
           \o IntToStr(ROTATED_HEIGHT_PX) \o COMMA \o MODE_0)

footer(copies) == encode(CRLF \o PRINT_KW \o IntToStr(copies) \o CRLF)

\* the framer with the bitmap encoded as if it were text
build_print_command_as_text(imagedata, density, copies) ==
    header(density) \o encode(imagedata) \o footer(copies)

build_print_command(imagedata, density, copies) ==
    header(density) \o imagedata \o footer(copies)

(***************************************************************************)
(* simple_print.py.                                                        *)
(***************************************************************************)
\* lowest and highest gray level of a scene, as autocontrast finds them
SceneRange(scene) ==
    CASE scene = "white"   -> <<255, 255>>
      [] scene = "black"   -> <<0, 0>>
      [] scene = "ramp"    -> <<0, 255>>
      [] scene = "stripes" -> <<18, 242>>

Clip(v) == IF v < 0 THEN 0 ELSE IF v > 255 THEN 255 ELSE v

\* ImageOps.autocontrast: stretch [lo, hi] to [0, 255]; identity if hi <= lo
autocontrast(img, range) ==
    [width  |-> img.width,
     height |-> img.height,
     px     |-> [p \in (0..(img.height - 1)) \X (0..(img.width - 1)) |->
                    IF range[2] <= range[1] THEN img.px[p]
                    ELSE Clip(((img.px[p] - range[1]) * 255) \div (range[2] - range[1]))]]

\* ImageEnhance.Contrast(img).enhance(2) around the mean gray level
enhance2(img, mean) ==
    [width  |-> img.width,
     height |-> img.height,
     px     |-> [p \in (0..(img.height - 1)) \X (0..(img.width - 1)) |->
                    Clip(mean + 2 * (img.px[p] - mean))]]

\* load_image of simple_print.py up to the conversion to a bilevel image
simple_normalize_image(size, scene) ==
    LET gray     == grayscale(Image_open(size, scene))
        stretched == autocontrast(gray, SceneRange(scene))
        enhanced == enhance2(stretched, (SceneRange(scene)[1] + SceneRange(scene)[2]) \div 2)
        upright  == IF enhanced.width > enhanced.height THEN rotate90(enhanced) ELSE enhanced
        scaled   == thumbnail(upright, SIMPLE_WIDTH_PX, SIMPLE_HEIGHT_PX)
    IN  convert1(scaled)

\* the padding that ends load_image of simple_print.py
simple_pad(b) ==
    IF Len(b) < SIMPLE_EXPECTED_BYTES
    THEN ljust(b, SIMPLE_EXPECTED_BYTES - Len(b), 255)
    ELSE b

simple_load_image(size, scene) ==
    simple_pad(tobytes(simple_normalize_image(size, scene)))

simple_header(density) ==
    encode(SIZE_LINE \o GAP_LINE \o DIRECTION_LINE
           \o DENSITY_KW \o IntToStr(density) \o CRLF
           \o CLS_LINE \o BITMAP_KW \o <<49, 50>> \o COMMA
           \o <<50, 56, 52>> \o COMMA \o MODE_1)

simple_build_print_command(imagedata, density, copies) ==
    simple_header(density) \o imagedata \o footer(copies)

(***************************************************************************)
(* Inputs.                                                                 *)
(***************************************************************************)
\* sizes <<width, height>> of the image files
SrcSizes == {<<96, 284>>, <<284, 96>>, <<40, 100>>, <<100, 40>>, <<90, 284>>,
             <<96, 100>>, <<192, 568>>, <<600, 200>>, <<97, 284>>, <<1, 1>>,
             <<8, 300>>, <<300, 300>>}

Thresholds == {0, DEFAULT_THRESHOLD, 256}

\* <<width, height>> arguments of render_text_label
CanvasSizes == {<<LABEL_WIDTH_PX, LABEL_HEIGHT_PX>>, <<LABEL_HEIGHT_PX, LABEL_WIDTH_PX>>,
                <<100, 50>>, <<300, 100>>, <<1, 1>>}

FontSizes == {DEFAULT_FONT_SIZE, 12, 120}

Texts == 0..MaxChars

\* values of the --density and --copies options
ArgVals == ((0 - MaxArg)..MaxArg) \cup {DEFAULT_DENSITY, DEFAULT_COPIES, 100, 0 - 2048}

\* bytes of the bitmaps handed to the framer alone
FrameBytes == {0, 10, 13, 255}

RECURSIVE SeqsUpTo(_, _)
SeqsUpTo(S, n) ==
    IF n = 0 THEN {<<>>}
    ELSE LET shorter == SeqsUpTo(S, n - 1)
         IN  shorter \cup {Append(q, b) : q \in {t \in shorter : Len(t) = n - 1}, b \in S}

\* an optional value: None or Some(v)
None == <<>>
Some(v) == <<v>>

\* one line sent back by the printer
RESPONSE_LINE == <<79, 75, 13, 10>>

DefaultArgs ==
    [image |-> TRUE, src |-> <<96, 284>>, scene |-> "white",
     threshold |-> DEFAULT_THRESHOLD, readable |-> TRUE,
     text |-> 0, width |-> LABEL_WIDTH_PX, height |-> LABEL_HEIGHT_PX,
     font_size |-> DEFAULT_FONT_SIZE, font_ok |-> TRUE,
     density |-> DEFAULT_DENSITY, copies |-> DEFAULT_COPIES,
     preview_only |-> FALSE]

\* the state before anything has run
Fresh ==
    /\ bitdata = <<>>
    /\ command = <<>>
    /\ conn = "none"
    /\ pending = "none"
    /\ response = None
    /\ calls = <<>>
    /\ written = <<>>
    /\ printed = None
    /\ logged = FALSE
    /\ exitcode = None

(***************************************************************************)
(* main of p21.py.                                                         *)
(***************************************************************************)
\* the command lines parse_args accepts
MainArgs ==
    {[DefaultArgs EXCEPT !.image = TRUE, !.src = sz, !.scene = sc, !.readable = rd,
                         !.density = d, !.copies = c, !.preview_only = pv] :
        sz \in {<<96, 284>>, <<100, 40>>}, sc \in {"ramp", "black"}, rd \in BOOLEAN,
        d \in {DEFAULT_DENSITY, 15}, c \in {DEFAULT_COPIES, 3}, pv \in BOOLEAN}
    \cup
    {[DefaultArgs EXCEPT !.image = FALSE, !.text = t, !.font_size = fs, !.font_ok = fo,
                         !.density = d, !.copies = c, !.preview_only = pv] :
        t \in Texts, fs \in {DEFAULT_FONT_SIZE, 12}, fo \in BOOLEAN,
        d \in {DEFAULT_DENSITY, 15}, c \in {DEFAULT_COPIES, 3}, pv \in BOOLEAN}

Init ==
    /\ pc = "main"
    /\ args \in MainArgs
    /\ Fresh

\* name of the rasterizer entry point main dispatches to
Rasterizer == IF args.image THEN "load_image" ELSE "render_text_label"

\* Image.open or ImageFont.truetype raises
InputError == IF args.image THEN ~args.readable ELSE ~args.font_ok

\* the preview path without its return: control falls into the print path
MainPreview_fallthrough ==
    /\ pc = "main"
    /\ args.preview_only
    /\ IF InputError
       THEN /\ calls' = calls \o <<Rasterizer>>
            /\ exitcode' = Some(1)
            /\ pc' = "exit"
       ELSE /\ calls' = calls \o <<Rasterizer, "show">>
            /\ pc' = "rasterized"
            /\ UNCHANGED exitcode
    /\ UNCHANGED <<args, bitdata, command, conn, pending, response, written,
                   printed, logged>>

\* main, preview path (lines 194-205)
MainPreview ==
    /\ pc = "main"
    /\ args.preview_only
    /\ IF InputError
       THEN /\ calls' = calls \o <<Rasterizer>>
            /\ exitcode' = Some(1)
       ELSE /\ calls' = calls \o <<Rasterizer, "show">>
            /\ exitcode' = Some(0)
    /\ pc' = "exit"
    /\ UNCHANGED <<args, bitdata, command, conn, pending, response, written,
                   printed, logged>>

\* the print path with the input error swallowed
MainRasterize_swallow ==
    /\ pc = "main"
    /\ ~args.preview_only
    /\ calls' = calls \o <<Rasterizer>>
    /\ pc' = "rasterized"
    /\ bitdata' = IF InputError THEN <<>>
                  ELSE IF args.image
                  THEN load_image(args.src, args.scene, DEFAULT_THRESHOLD)
                  ELSE render_text_label(args.text, LABEL_WIDTH_PX,
                                         LABEL_HEIGHT_PX, args.font_size)
    /\ UNCHANGED <<args, command, conn, pending, response, written, printed,
                   logged, exitcode>>

\* main, rasterization of the print path (lines 208-216)
MainRasterize ==
    /\ pc = "main"
    /\ ~args.preview_only
    /\ calls' = calls \o <<Rasterizer>>
    /\ IF InputError
       THEN /\ pc' = "exit"
            /\ exitcode' = Some(1)
            /\ UNCHANGED bitdata
       ELSE /\ pc' = "rasterized"
            /\ bitdata' = IF args.image
                          THEN load_image(args.src, args.scene, DEFAULT_THRESHOLD)
                          ELSE render_text_label(args.text, LABEL_WIDTH_PX,
                                                 LABEL_HEIGHT_PX, args.font_size)
            /\ UNCHANGED exitcode
    /\ UNCHANGED <<args, command, conn, pending, response, written, printed, logged>>

\* main, framing (line 218)
MainBuild ==
    /\ pc = "rasterized"
    /\ command' = build_print_command(bitdata, args.density, args.copies)
    /\ calls' = calls \o <<"build_print_command">>
    /\ pc' = "built"
    /\ UNCHANGED <<args, bitdata, conn, pending, response, written, printed,
                   logged, exitcode>>

\* what a call on the serial port can do
Outcomes == {"ok", "SerialException", "KeyboardInterrupt"}

\* no handler for the exception of the constructor
AfterOpenError_uncaught(exc) == "raise"

\* where control goes when the constructor of serial.Serial raises
AfterOpenError(exc) == IF exc = "SerialException" THEN "except" ELSE "raise"

\* send_to_printer: serial.Serial(device, 115200, timeout=3) (line 122)
SerialOpen ==
    /\ pc = "built"
    /\ calls' = calls \o <<"open">>
    /\ \E outcome \in Outcomes :
          IF outcome = "ok"
          THEN /\ conn' = "open"
               /\ pc' = "opened"
               /\ UNCHANGED pending
          ELSE /\ pending' = outcome
               /\ pc' = AfterOpenError(outcome)
               /\ UNCHANGED conn
    /\ UNCHANGED <<args, bitdata, command, response, written, printed, logged, exitcode>>

\* the write split in two calls
SerialWrite_chunked ==
    /\ pc = "opened"
    /\ calls' = calls \o <<"write", "write">>
    /\ \E outcome \in Outcomes :
          IF outcome = "ok"
          THEN /\ written' = written \o command
               /\ pc' = "wrote"
               /\ UNCHANGED pending
          ELSE /\ pending' = outcome
               /\ pc' = "with_exit"
               /\ UNCHANGED written
    /\ UNCHANGED <<args, bitdata, command, conn, response, printed, logged, exitcode>>

\* send_to_printer: s.write(payload) (line 123)
SerialWrite ==
    /\ pc = "opened"
    /\ calls' = calls \o <<"write">>
    /\ \E outcome \in Outcomes :
          IF outcome = "ok"
          THEN /\ written' = written \o command
               /\ pc' = "wrote"
               /\ UNCHANGED pending
          ELSE /\ pending' = outcome
               /\ pc' = "with_exit"
               /\ UNCHANGED written
    /\ UNCHANGED <<args, bitdata, command, conn, response, printed, logged, exitcode>>

\* the bytes readline can return: a line, or nothing after the timeout
Lines == {RESPONSE_LINE, <<>>}

\* send_to_printer: return s.readline() (line 124)
SerialReadline ==
    /\ pc = "wrote"
    /\ calls' = calls \o <<"readline">>
    /\ \/ \E line \in Lines :
             /\ response' = Some(line)
             /\ UNCHANGED pending
       \/ \E outcome \in Outcomes \ {"ok"} :
             /\ pending' = outcome
             /\ UNCHANGED response
    /\ pc' = "with_exit"
    /\ UNCHANGED <<args, bitdata, command, conn, written, printed, logged, exitcode>>

\* where control goes after the with block has released the connection
AfterWith(exc) ==
    IF exc = "none" THEN "returned"
    ELSE IF exc = "SerialException" THEN "except"
    ELSE "raise"

\* the connection released only when the block ends without an exception
ConnAfterWith_leak(exc) == IF exc = "none" THEN "closed" ELSE "open"

\* state of the connection after the with block
ConnAfterWith(exc) == "closed"

\* send_to_printer: the with statement leaves its block (line 122)
SerialClose ==
    /\ pc = "with_exit"
    /\ conn' = ConnAfterWith(pending)
    /\ calls' = calls \o <<"close">>
    /\ pc' = AfterWith(pending)
    /\ UNCHANGED <<args, bitdata, command, pending, response, written, printed,
                   logged, exitcode>>

\* send_to_printer: except serial.SerialException (lines 125-127)
SerialExcept ==
    /\ pc = "except"
    /\ logged' = TRUE
    /\ response' = None
    /\ pc' = "returned"
    /\ UNCHANGED <<args, bitdata, command, conn, pending, written, calls, printed,
                   exitcode>>

\* an exception leaves send_to_printer and main uncaught
MainRaise ==
    /\ pc = "raise"
    /\ exitcode' = Some(1)
    /\ pc' = "exit"
    /\ UNCHANGED <<args, bitdata, command, conn, pending, response, written, calls,
                   printed, logged>>

\* main: print the response unless it is None (lines 221-222)
MainPrint ==
    /\ pc = "returned"
    /\ IF response # None
       THEN /\ printed' = response
            /\ calls' = calls \o <<"print">>
       ELSE UNCHANGED <<printed, calls>>
    /\ exitcode' = Some(0)
    /\ pc' = "exit"
    /\ UNCHANGED <<args, bitdata, command, conn, pending, response, written, logged>>

Next ==
    \/ MainPreview
    \/ MainRasterize
    \/ MainBuild
    \/ SerialOpen
    \/ SerialWrite
    \/ SerialReadline
    \/ SerialClose
    \/ SerialExcept
    \/ MainRaise
    \/ MainPrint

Spec == Init /\ [][Next]_vars

(***************************************************************************)
(* The two rasterizer entry points called on their own.                    *)
(***************************************************************************)
RasterArgs ==
    {[DefaultArgs EXCEPT !.image = TRUE, !.src = sz, !.scene = sc, !.threshold = th] :
        sz \in SrcSizes, sc \in Scenes \ {"white"}, th \in Thresholds}
    \cup
    {[DefaultArgs EXCEPT !.image = FALSE, !.text = t, !.font_size = fs,
                         !.width = cs[1], !.height = cs[2]] :
        t \in Texts, fs \in FontSizes, cs \in CanvasSizes}

InitRaster ==
    /\ pc = "call"
    /\ args \in RasterArgs
    /\ Fresh

CallLoadImage ==
    /\ pc = "call"
    /\ args.image
    /\ bitdata' = load_image(args.src, args.scene, args.threshold)
    /\ calls' = calls \o <<"load_image">>
    /\ pc' = "returned_bitdata"
    /\ UNCHANGED <<args, command, conn, pending, response, written, printed,
                   logged, exitcode>>

CallRenderTextLabel ==
    /\ pc = "call"
    /\ ~args.image
    /\ bitdata' = render_text_label(args.text, args.width, args.height, args.font_size)
    /\ calls' = calls \o <<"render_text_label">>
    /\ pc' = "returned_bitdata"
    /\ UNCHANGED <<args, command, conn, pending, response, written, printed,
                   logged, exitcode>>

NextRaster == CallLoadImage \/ CallRenderTextLabel

SpecRaster == InitRaster /\ [][NextRaster]_vars

(***************************************************************************)
(* The command framer called on its own, on any bitmap.                    *)
(***************************************************************************)
InitFrame ==
    /\ pc = "rasterized"
    /\ args \in {[DefaultArgs EXCEPT !.density = d, !.copies = c] :
                    d \in ArgVals, c \in ArgVals}
    /\ bitdata \in SeqsUpTo(FrameBytes, MaxLen)
    /\ command = <<>>
    /\ conn = "none"
    /\ pending = "none"
    /\ response = None
    /\ calls = <<>>
    /\ written = <<>>
    /\ printed = None
    /\ logged = FALSE
    /\ exitcode = None

NextFrame == MainBuild

SpecFrame == InitFrame /\ [][NextFrame]_vars

(***************************************************************************)
(* load_image and build_print_command of simple_print.py.                  *)
(***************************************************************************)
SimpleArgs ==
    {[DefaultArgs EXCEPT !.src = sz, !.scene = sc] : sz \in SrcSizes, sc \in Scenes}

InitSimple ==
    /\ pc = "simple"
    /\ args \in SimpleArgs
    /\ Fresh

\* simple_print.py line 38
SimpleLoadImage ==
    /\ pc = "simple"
    /\ bitdata' = simple_load_image(args.src, args.scene)
    /\ calls' = calls \o <<"load_image">>
    /\ pc' = "simple_loaded"
    /\ UNCHANGED <<args, command, conn, pending, response, written, printed,
                   logged, exitcode>>

\* simple_print.py line 39
SimpleBuild ==
    /\ pc = "simple_loaded"
    /\ command' = simple_build_print_command(bitdata, 7, 1)
    /\ calls' = calls \o <<"build_print_command">>
    /\ pc' = "simple_built"
    /\ UNCHANGED <<args, bitdata, conn, pending, response, written, printed,
                   logged, exitcode>>

NextSimple == SimpleLoadImage \/ SimpleBuild

SpecSimple == InitSimple /\ [][NextSimple]_vars

(***************************************************************************)
(* Properties.                                                             *)
(***************************************************************************)
Count(seq, x) == Cardinality({i \in DOMAIN seq : seq[i] = x})

\* the packed bytes the rasterizer entry point clamps, for the current input
Packed ==
    IF args.image
    THEN tobytes(normalize_image(args.src, args.scene, args.threshold))
    ELSE tobytes(rotated_label(args.text, args.width, args.height, args.font_size))

\* C1: load_image and render_text_label return exactly 3408 bytes: the packed
\* bytes, right-padded with 0xFF when shorter, cut to the first 3408 when longer.
C1_BufferLength ==
    pc = "returned_bitdata" =>
        LET packed == Packed
            n      == Len(packed)
        IN  /\ Len(bitdata) = 3408
            /\ \A i \in 1..3408 :
                  bitdata[i] = IF i <= n THEN packed[i] ELSE 255

\* load_image has returned a buffer that had to be padded
C1_Witness ==
    /\ pc = "returned_bitdata"
    /\ args.image
    /\ Len(Packed) < 3408
    /\ Len(bitdata) = 3408

WIRE_HEAD ==
    <<83, 73, 90, 69, 32, 49, 52, 46, 48, 32, 109, 109, 44, 52, 48, 46, 48,
      32, 109, 109, 13, 10, 71, 65, 80, 32, 53, 46, 48, 32, 109, 109, 44,
      48, 32, 109, 109, 13, 10, 68, 73, 82, 69, 67, 84, 73, 79, 78, 32, 49,
      44, 49, 13, 10, 68, 69, 78, 83, 73, 84, 89, 32>>

WIRE_DECL ==
    <<13, 10, 67, 76, 83, 13, 10, 66, 73, 84, 77, 65, 80, 32, 48, 44, 48,
      44, 49, 50, 44, 50, 56, 52, 44, 48, 44>>

WIRE_PRINT ==
    <<13, 10, 80, 82, 73, 78, 84, 32>>

\* number of characters of the decimal notation of n
RECURSIVE DecLen(_)
DecLen(n) == IF n < 0 THEN 1 + DecLen(0 - n)
             ELSE IF n < 10 THEN 1 ELSE 1 + DecLen(n \div 10)

\* value of a string of decimal digits
RECURSIVE DigitsValue(_)
DigitsValue(d) ==
    IF d = <<>> THEN 0
    ELSE 10 * DigitsValue(SubSeq(d, 1, Len(d) - 1)) + (d[Len(d)] - 48)

\* d is the decimal notation of n: an optional minus sign, digits, no leading zero
IsDecimalOf(d, n) ==
    LET digits == IF d # <<>> /\ d[1] = 45 THEN Tail(d) ELSE d
    IN  /\ digits # <<>>
        /\ \A i \in DOMAIN digits : digits[i] \in 48..57
        /\ Len(digits) > 1 => digits[1] # 48
        /\ (d[1] = 45) <=> (n < 0)
        /\ DigitsValue(digits) = Abs(n)

\* C2: the command begins with the header lines in their fixed order, the
\* density in decimal as given, then the BITMAP declaration, and ends with
\* CRLF PRINT <copies> CRLF.
C2_HeaderFooter ==
    pc = "built" =>
        LET dl  == DecLen(args.density)
            cl  == DecLen(args.copies)
            n   == Len(command)
            h   == Len(WIRE_HEAD)
        IN  /\ n >= h + dl + Len(WIRE_DECL) + Len(WIRE_PRINT) + cl + 2
            /\ SubSeq(command, 1, h) = WIRE_HEAD
            /\ IsDecimalOf(SubSeq(command, h + 1, h + dl), args.density)
            /\ SubSeq(command, h + dl + 1, h + dl + Len(WIRE_DECL)) = WIRE_DECL
            /\ SubSeq(command, n - 1, n) = <<13, 10>>
            /\ IsDecimalOf(SubSeq(command, n - 1 - cl, n - 2), args.copies)
            /\ SubSeq(command, n - 1 - cl - Len(WIRE_PRINT), n - 2 - cl) = WIRE_PRINT

\* a command was built with a negative density and a three digit copies count
C2_Witness ==
    /\ pc = "built"
    /\ args.density < 0
    /\ args.copies = 100
    /\ command # <<>>

\* the bytes of a command between the BITMAP declaration and the footer
Embedded(cmd, density, copies) ==
    SubSeq(cmd,
           Len(WIRE_HEAD) + DecLen(density) + Len(WIRE_DECL) + 1,
           Len(cmd) - (Len(WIRE_PRINT) + DecLen(copies) + 2))

\* C3: building a command leaves the bitmap as it was, and the bytes between
\* the BITMAP declaration and the footer of the command are the bitmap.
C3_RoundTrip ==
    [][MainBuild => /\ bitdata' = bitdata
                    /\ Embedded(command', args.density, args.copies) = bitdata]_vars

\* a command was built around a bitmap that holds CR, LF and 0xFF bytes
C3_Witness ==
    /\ pc = "built"
    /\ bitdata = <<13, 10, 255>>
    /\ Len(command) > Len(bitdata)

\* the calls that belong to the framer and the transport
TransportCalls == {"build_print_command", "open", "write", "readline", "close", "print"}

\* C4: a preview-only run never builds a command and never touches the device.
C4_PreviewOnly ==
    args.preview_only =>
        /\ \A i \in DOMAIN calls : calls[i] \notin TransportCalls
        /\ command = <<>>
        /\ conn = "none"
        /\ written = <<>>
        /\ response = None
        /\ printed = None

\* a preview-only run has shown the label and ended
C4_Witness ==
    /\ args.preview_only
    /\ pc = "exit"
    /\ exitcode = Some(0)
    /\ calls = <<Rasterizer, "show">>

\* C5: once send_to_printer has returned or raised, the connection it opened
\* is closed, whatever happened in between.
C5_Released ==
    pc \in {"except", "raise", "returned", "exit"} =>
        /\ conn # "open"
        /\ Count(calls, "open") = 1 /\ pending # "none" /\ Count(calls, "write") = 0
              => conn = "none"
        /\ Count(calls, "write") = 1 => conn = "closed" /\ Count(calls, "close") = 1

\* an exception that is not a SerialException propagates after a write, the
\* connection being closed
C5_Witness ==
    /\ pc = "raise"
    /\ pending = "KeyboardInterrupt"
    /\ Count(calls, "write") = 1
    /\ conn = "closed"

\* the open or the write has raised a SerialException
OpenOrWriteFailed == pending = "SerialException" /\ Count(calls, "readline") = 0

\* C6: a SerialException of the open or of the write is caught and logged,
\* no response is returned or printed, and neither call is made again.
C6_TransportError ==
    OpenOrWriteFailed =>
        /\ pc \in {"with_exit", "except", "returned", "exit"}
        /\ pc \in {"returned", "exit"} => logged
        /\ response = None
        /\ printed = None
        /\ Count(calls, "print") = 0
        /\ Count(calls, "open") = 1
        /\ Count(calls, "write") <= 1
        /\ written = <<>>

\* main has ended after a write that failed
C6_Witness ==
    /\ OpenOrWriteFailed
    /\ Count(calls, "write") = 1
    /\ pc = "exit"
    /\ logged

\* C7: an input error of the rasterizer ends the process with a non-zero
\* status after a single rasterizer call; no command is built, nothing is sent.
C7_InputError ==
    InputError /\ pc # "main" =>
        /\ pc = "exit"
        /\ exitcode = Some(1)
        /\ calls = <<Rasterizer>>
        /\ command = <<>>
        /\ conn = "none"
        /\ written = <<>>

\* a print run has ended on an input error
C7_Witness ==
    /\ InputError
    /\ ~args.preview_only
    /\ pc = "exit"
    /\ exitcode = Some(1)

\* position of a call in the pipeline
Rank(call) ==
    CASE call \in {"load_image", "render_text_label"} -> 1
      [] call = "build_print_command" -> 2
      [] call = "open" -> 3
      [] call = "write" -> 4
      [] call = "readline" -> 5
      [] call = "close" -> 6
      [] call = "print" -> 7
      [] OTHER -> 0

\* C9: in a print run the calls follow the pipeline order, each made at most
\* once and none before the ones it depends on; what is written is the whole
\* command; a response is printed only after the connection is closed.
C9_Pipeline ==
    ~args.preview_only =>
        /\ \A i, j \in DOMAIN calls : i < j => Rank(calls[i]) < Rank(calls[j])
        /\ \A i \in DOMAIN calls : Rank(calls[i]) = i \/ calls[i] = "close"
        /\ Count(calls, "readline") = 1 => Count(calls, "write") = 1
        /\ Count(calls, "open") = 1 =>
              command = build_print_command(bitdata, args.density, args.copies)
        /\ written \in {<<>>, command}
        /\ Count(calls, "readline") = 1 => written = command
        /\ Count(calls, "print") = 1 =>
              /\ conn = "closed"
              /\ Len(calls) = 7
              /\ printed = response

\* a print run has gone through the whole pipeline
C9_Witness ==
    /\ ~args.preview_only
    /\ pc = "exit"
    /\ Len(calls) = 7
    /\ printed = Some(RESPONSE_LINE)

\* the scaled image load_image packs
Scaled == normalize_image(args.src, args.scene, args.threshold)

\* byte c of row r of a 96 pixel wide raster that holds the image in its top
\* left corner and is white elsewhere
RasterBit(img, r, x, m) ==
    IF r < img.height /\ x < img.width /\ img.px[<<r, x>>] = 0 THEN 0 ELSE m

RasterByte(img, r, c) ==
      RasterBit(img, r, 8 * c, 128)    + RasterBit(img, r, 8 * c + 1, 64)
    + RasterBit(img, r, 8 * c + 2, 32) + RasterBit(img, r, 8 * c + 3, 16)
    + RasterBit(img, r, 8 * c + 4, 8)  + RasterBit(img, r, 8 * c + 5, 4)
    + RasterBit(img, r, 8 * c + 6, 2)  + RasterBit(img, r, 8 * c + 7, 1)

\* C8: the buffer of load_image is a raster of 284 rows of 12 bytes: byte
\* 12*r + c holds pixels 8c..8c+7 of row r of the scaled image, MSB first, and
\* the area the image does not cover is white.
C8_FixedStride ==
    pc = "returned_bitdata" /\ args.image =>
        \A r \in 0..283 : \A c \in 0..11 :
            bitdata[12 * r + c + 1] = RasterByte(Scaled, r, c)

\* the packed bytes load_image of simple_print.py pads
SimplePacked == tobytes(simple_normalize_image(args.src, args.scene))

\* C10: load_image of simple_print.py returns a bitmap shorter than 3408 bytes
\* padded to 3408 bytes with 0xFF.
C10_SimplePad ==
    pc = "simple_loaded" =>
        LET packed == SimplePacked
            n      == Len(packed)
        IN  n < 3408 =>
                /\ Len(bitdata) = 3408
                /\ bitdata = packed \o Fill(3408 - n, 255)

====
